---------------------------- MODULE Spec2Model ----------------------------
(***************************************************************************)
(* Model of run_mcmc (Final_construct-Copy1-checkpoint.ipynb): the         *)
(* Metropolis sampling loop, the warm-up / chain splitting, the            *)
(* between/within variance diagnostics, the variogram autocorrelation with *)
(* its cutoff search, the effective sample size, the while condition and   *)
(* the final thinning.                                                     *)
(*                                                                         *)
(* Chain states are small integers, so every statistic is a rational and   *)
(* is computed exactly, as a normalised pair <<num, den>>.  A float that   *)
(* numpy produces by dividing by zero is kept as "inf" or "nan".  R holds  *)
(* the SQUARE of the potential scale reduction (var_dagger / W): sqrt is   *)
(* monotone, so R > R_max is decided on the squares.                       *)
(***************************************************************************)
EXTENDS Integers, Sequences, FiniteSets, TLC

VARIABLES
    pc,                 \* position in run_mcmc, or the exception that ended it
    dimension,          \* global dimension = len(x_start[0])
    x_start,            \* seed states, x_start[i][d]
    n_eff_min,          \* requested minimum effective sample size
    R_max,              \* threshold on R, a rational <<num, den>>
    mcmc_step_remember, \* block size
    mcmc_step,          \* current Record length
    mcmc_step_0,        \* Record length of the previous outer iteration
    z,                  \* number of completed outer iterations
    x_recorded,         \* the Record, x_recorded[t][d][i]
    i_chain,            \* chain being sampled (loop variable i, line 198)
    k_step,             \* step being sampled (loop variable k, line 201)
    x_current,          \* current state of the chain being sampled
    acceptances,        \* accepted moves so far (sum of the acceptances arrays)
    x_result,           \* the Ensemble, x_result[t][d][j]; <<>> while unbound
    n,                  \* Ensemble chain length
    m,                  \* Ensemble chain count
    d_dim,              \* dimension being diagnosed (loop variable d, line 252)
    B,                  \* between-sequence variances of this iteration
    W,                  \* within-sequence variances of this iteration
    var_dagger,         \* pooled variances of this iteration
    R,                  \* squared potential scale reductions of this iteration
    rho_array_set,      \* autocorrelations rho_d(0..n-1) of this iteration
    choice,             \* module-level cutoff list (line 117)
    n_effective,        \* effective sample sizes, n_effective[d]
    samples_skip,       \* thinning interval
    samples             \* the returned flat sample list

vars == <<pc, dimension, x_start, n_eff_min, R_max, mcmc_step_remember,
          mcmc_step, mcmc_step_0, z, x_recorded, i_chain, k_step, x_current,
          acceptances, x_result, n, m, d_dim, B, W, var_dagger, R,
          rho_array_set, choice, n_effective, samples_skip, samples>>

----------------------------------------------------------------------------
(* Bounds of the model *)

\* chain coordinates range over 0..MaxVal in the driver specification
MaxVal == 1
\* accepted Metropolis moves per run
MaxAccept == 3
\* outer iterations per run
MaxIter == 2
\* chain coordinates range over 0..MaxValD in the diagnostics specification
MaxValD == 2

----------------------------------------------------------------------------
(* Exact rational arithmetic on normalised pairs <<num, den>>, den > 0 *)

Abs(a) == IF a < 0 THEN -a ELSE a

RECURSIVE GCD(_, _)
GCD(a, b) == IF b = 0 THEN a ELSE GCD(b, a % b)

Q(a, b) ==
    LET g == GCD(Abs(a), Abs(b))
        s == IF b < 0 THEN -1 ELSE 1
    IN  <<(s * a) \div g, (s * b) \div g>>

QInt(a) == <<a, 1>>
QAdd(x, y) == Q(x[1] * y[2] + y[1] * x[2], x[2] * y[2])
QSub(x, y) == Q(x[1] * y[2] - y[1] * x[2], x[2] * y[2])
QMul(x, y) == Q(x[1] * y[1], x[2] * y[2])
QDiv(x, y) == Q(x[1] * y[2], x[2] * y[1])
QLt(x, y) == x[1] * y[2] < y[1] * x[2]
QLe(x, y) == x[1] * y[2] <= y[1] * x[2]
QSq(x) == QMul(x, x)

RECURSIVE ISum(_, _, _)
\* sum of the integers f[x], x in lo..hi
ISum(f, lo, hi) == IF lo > hi THEN 0 ELSE f[lo] + ISum(f, lo + 1, hi)

RECURSIVE QSum(_, _, _)
\* sum of the rationals f[x], x in lo..hi
QSum(f, lo, hi) ==
    IF lo > hi THEN QInt(0) ELSE QAdd(f[lo], QSum(f, lo + 1, hi))

\* floats: a finite rational, or what numpy yields on a division by zero
Fin(q) == [k |-> "fin", v |-> q]
Inf == [k |-> "inf", v |-> QInt(0)]
NegInf == [k |-> "-inf", v |-> QInt(0)]
NaN == [k |-> "nan", v |-> QInt(0)]

\* x < y on floats (False whenever a nan is involved)
FLt(x, y) ==
    CASE x.k = "nan" \/ y.k = "nan" -> FALSE
      [] x.k = "inf" \/ y.k = "-inf" -> FALSE
      [] x.k = "-inf" \/ y.k = "inf" -> TRUE
      [] OTHER -> QLt(x.v, y.v)

\* x + y on floats
FAdd(x, y) ==
    CASE x.k = "nan" \/ y.k = "nan" -> NaN
      [] x.k = "fin" /\ y.k = "fin" -> Fin(QAdd(x.v, y.v))
      [] x.k = "fin" -> y
      [] y.k = "fin" -> x
      [] x.k = y.k -> x
      [] OTHER -> NaN

\* 1.0 - x on floats
FOneMinus(x) ==
    CASE x.k = "fin" -> Fin(QSub(QInt(1), x.v))
      [] x.k = "inf" -> NegInf
      [] x.k = "-inf" -> Inf
      [] OTHER -> NaN

\* numpy's x / y for x >= 0
FDiv(x, y) ==
    IF y[1] # 0 THEN Fin(QDiv(x, y))
    ELSE IF x[1] = 0 THEN NaN ELSE Inf

\* the '' entry of choice
Empty == -1


----------------------------------------------------------------------------
(* Diagnostics of one dimension (lines 253-311).  p is psi[d]: p[t][j] is  *)
(* the coordinate of Ensemble chain j at index t; nn = n and mm = m.       *)

(* Every sum of the source is taken over a common denominator, in        *)
(* integers, and divided once: the value is the source's, exactly.         *)

\* np.sum(psi[d], axis=0)[j]
ColSum(p, nn, j) == ISum([t \in 0..nn-1 |-> p[t][j]], 0, nn - 1)

\* line 253: psi_dot_j_bar[d][j] = (1/n) * sum_t psi[d][t][j]
psi_dot_j_bar(p, nn, mm) == [j \in 0..mm-1 |-> Q(ColSum(p, nn, j), nn)]

\* line 255: psi_dot_dot_bar[d] = (1/m) * sum_j psi_dot_j_bar[d][j]
psi_dot_dot_bar(p, nn, mm) ==
    Q(ISum([j \in 0..mm-1 |-> ColSum(p, nn, j)], 0, mm - 1), mm * nn)

\* lines 257-259: B[d] = (n/(m-1)) * sum_j (psi_dot_j_bar - psi_dot_dot_bar)^2,
\* with psi_dot_j_bar[j] - psi_dot_dot_bar = (m*S_j - G) / (m*n),
\* S_j the column sum and G the sum of all S_j
BOf(p, nn, mm) ==
    LET S == [j \in 0..mm-1 |-> ColSum(p, nn, j)]
        G == ISum(S, 0, mm - 1)
    IN  QMul(Q(nn, mm - 1),
             Q(ISum([j \in 0..mm-1 |-> (mm * S[j] - G) * (mm * S[j] - G)],
                    0, mm - 1),
               mm * nn * mm * nn))

\* lines 261-266: s_j_square[d][j] = (1/(n-1)) * sum_t (psi - psi_dot_j_bar)^2,
\* with psi[t][j] - psi_dot_j_bar[j] = (n*psi[t][j] - S_j) / n
s_j_square(p, nn, mm) ==
    [j \in 0..mm-1 |->
        LET Sj == ColSum(p, nn, j)
        IN  QMul(Q(1, nn - 1),
                 Q(ISum([t \in 0..nn-1 |->
                            (nn * p[t][j] - Sj) * (nn * p[t][j] - Sj)],
                        0, nn - 1),
                   nn * nn))]

\* line 268: W[d] = (1/m) * sum_j s_j_square[d][j]
WOf(p, nn, mm) == QMul(Q(1, mm), QSum(s_j_square(p, nn, mm), 0, mm - 1))

\* a pooled variance with the sign of the between term flipped
VarDaggerMinus(Wd, Bd, nn) == QSub(QMul(Q(nn - 1, nn), Wd), QMul(Q(1, nn), Bd))

\* line 272: var_dagger[d] = ((n-1)/n) * W[d] + (1/n) * B[d]
VarDaggerOf(Wd, Bd, nn) == QAdd(QMul(Q(nn - 1, nn), Wd), QMul(Q(1, nn), Bd))

\* line 277: R[d] = sqrt(var_dagger[d] / W[d]), kept as its square
ROf(vd, Wd) == FDiv(vd, Wd)

\* lines 281-287: the variogram at lag t < n,
\* V(t) = (1/(m*(n-t))) * sum_j sum_{i>=t} (psi[i][j] - psi[i-t][j])^2
V(p, nn, mm, t) ==
    Q(ISum([j \in 0..mm-1 |->
               ISum([i \in t..nn-1 |->
                        (p[i][j] - p[i - t][j]) * (p[i][j] - p[i - t][j])],
                    t, nn - 1)],
           0, mm - 1),
      mm * (nn - t))

\* lines 290-291: rho(t) = 1 - V(t) / (2 * var_dagger[d]), t < n
rho(p, nn, mm, vd, t) ==
    FOneMinus(FDiv(V(p, nn, mm, t), QMul(QInt(2), vd)))

\* lines 294-296: rho_array[t] = rho(t), t in range(n)
RhoArrayOf(p, nn, mm, vd) == [t \in 0..nn-1 |-> rho(p, nn, mm, vd, t)]

RECURSIVE CutoffSearchInRange(_, _, _)
\* a search that stops at i = n-2 and reports that it found nothing
CutoffSearchInRange(ra, nn, i) ==
    IF i + 1 >= nn THEN [res |-> "none", i |-> Empty]
    ELSE IF FLt(FAdd(ra[i], ra[i + 1]), Fin(QInt(0)))
         THEN [res |-> "found", i |-> i]
         ELSE CutoffSearchInRange(ra, nn, i + 1)

RECURSIVE CutoffSearch(_, _, _)
\* lines 300-304: for i in range(n): check = rho(i) + rho(i+1); the first
\* i with check < 0 ends the loop.  rho(n) divides by m*(n-n): at i = n-1
\* the loop raises ZeroDivisionError before check is compared.
CutoffSearch(ra, nn, i) ==
    IF i >= nn THEN [res |-> "none", i |-> Empty]
    ELSE IF i + 1 >= nn THEN [res |-> "ZeroDivisionError", i |-> Empty]
    ELSE IF FLt(FAdd(ra[i], ra[i + 1]), Fin(QInt(0)))
         THEN [res |-> "found", i |-> i]
         ELSE CutoffSearch(ra, nn, i + 1)

\* line 309: n_effective[d] = (m*n) / (1 + 2*sum(rho_array[1:choice[d]]))
ESSDenominator(ra, nn, T) ==
    LET hi == IF T - 1 < nn - 1 THEN T - 1 ELSE nn - 1
    IN  QAdd(QInt(1),
             QMul(QInt(2), QSum([t \in 1..hi |-> ra[t].v], 1, hi)))

NEffectiveOf(ra, nn, mm, T) ==
    LET D == ESSDenominator(ra, nn, T)
    IN  IF D[1] = 0 THEN Inf ELSE Fin(QDiv(QInt(mm * nn), D))

----------------------------------------------------------------------------
(* Thinning (lines 319-337) *)

\* line 319: np.amin(n_effective)
RECURSIVE AMin(_, _)
AMin(f, S) ==
    LET x == CHOOSE x \in S : TRUE
    IN  IF S = {x} THEN f[x]
        ELSE LET r == AMin(f, S \ {x})
             IN  IF f[x].k = "nan" \/ r.k = "nan" THEN NaN
                 ELSE IF FLt(f[x], r) THEN f[x] ELSE r

\* ceil(a / b) for integers a >= 0, b > 0
CeilDiv(a, b) == (a + b - 1) \div b

\* lines 322-323: samples_skip = ceil(1.0 * m * n / n_effective_final),
\* for n_effective_final > 0 or infinite (m*n/inf = 0.0)
SamplesSkipOf(nn, mm, nef) ==
    IF nef.k = "inf" THEN 0
    ELSE CeilDiv(mm * nn * nef.v[2], nef.v[1])

\* lines 326-329: samples_final.shape[0]
SamplesFinalRows(nn, skip) ==
    IF nn % skip = 0 THEN nn \div skip ELSE CeilDiv(nn, skip)

RECURSIVE StridedRows(_, _, _)
\* line 331: the number of rows of x_result[0::samples_skip] from index t on
StridedRows(nn, skip, t) ==
    IF t >= nn THEN 0 ELSE 1 + StridedRows(nn, skip, t + skip)

\* lines 331-337: samples[j*rows + r] = x_result[r*samples_skip, :, j]
SamplesOf(xr, dim, mm, skip, rows) ==
    [q \in 1..(rows * mm) |->
        LET j == (q - 1) \div rows
            r == (q - 1) % rows
        IN  [d \in 0..dim-1 |-> xr[r * skip][d][j]]]

----------------------------------------------------------------------------
(* Configurations *)

Vals == 0..MaxVal
ValsD == 0..MaxValD

\* the states a chain of dimension dim can visit
States(dim, vals) == [0..dim-1 -> vals]

\* seed lists: chain i starts with every coordinate at s[i], chain 0 at 0
SeedLists(c, dim, vals) ==
    {[i \in 0..c-1 |-> [d \in 0..dim-1 |-> s[i]]] :
        s \in {f \in [0..c-1 -> vals] : f[0] = 0}}

\* configurations <<dimension, number of seeds, mcmc_step, n_eff_min, R_max>>
\* that section 6 of the design admits: with 2 seeds and blocks of 12 the
\* first Ensemble has m*n = 12 states, so n_eff_min = 12 can stop after one
\* outer iteration and n_eff_min = 13 cannot; a block of 4 gives n = 1
ValidConfigs ==
    {<<1, 2, 12, 12, <<11, 10>>>>, <<1, 2, 12, 13, <<11, 10>>>>,
     <<2, 2, 12, 12, <<11, 10>>>>, <<1, 2, 4, 12, <<11, 10>>>>}

\* configurations with one parameter out of range: a single seed (m*n = 6
\* in the first Ensemble), a block that is no multiple of 4, n_eff_min = 0,
\* R_max = 1
InvalidConfigs ==
    {<<1, 1, 12, 6, <<11, 10>>>>, <<1, 1, 12, 7, <<11, 10>>>>,
     <<1, 2, 6, 12, <<11, 10>>>>, <<1, 2, 12, 0, <<11, 10>>>>,
     <<1, 2, 12, 12, <<1, 1>>>>}

\* line 186: np.zeros((rows, dimension, len(x_start)))
Zeros(rows, dim, c) == [t \in 0..rows-1 |-> [d \in 0..dim-1 |-> [i \in 0..c-1 |-> 0]]]

\* the state of run_mcmc at position at, with Record rec, before the first
\* Ensemble is built (lines 174-186 and line 117 set all the rest)
StateAt(at, dim, xs, nem, rmax, block, rec, i, k, xc, acc) ==
    /\ pc = at
    /\ dimension = dim
    /\ x_start = xs
    /\ n_eff_min = nem
    /\ R_max = rmax
    /\ mcmc_step_remember = block
    /\ mcmc_step = block
    /\ mcmc_step_0 = 0
    /\ z = 0
    /\ x_recorded = rec
    /\ i_chain = i
    /\ k_step = k
    /\ x_current = xc
    /\ acceptances = acc
    /\ x_result = <<>>
    /\ n = 0
    /\ m = 0
    /\ d_dim = 0
    /\ B = <<>>
    /\ W = <<>>
    /\ var_dagger = <<>>
    /\ R = <<Fin(QInt(0))>>
    /\ rho_array_set = <<>>
    /\ choice = <<Empty>>
    /\ n_effective = [d \in 0..dim-1 |-> Fin(QInt(0))]
    /\ samples_skip = 0
    /\ samples = <<>>

\* lines 174-186: the state when the while loop is first tested
Setup(dim, xs, nem, rmax, block) ==
    StateAt("while", dim, xs, nem, rmax, block,
            Zeros(block, dim, Cardinality(DOMAIN xs)), 0, 0, xs[0], 0)

Init ==
    \E cfg \in ValidConfigs \cup InvalidConfigs :
        \E xs \in SeedLists(cfg[2], cfg[1], Vals) :
            Setup(cfg[1], xs, cfg[4], cfg[5], cfg[3])

(* The diagnostics specification starts where the first block has been    *)
(* sampled (line 207 done for every chain): one dimension, every chain    *)
(* seeded at 0 and still there over the warm-up half, then moving freely   *)
(* over 0..MaxValD.                                                        *)

\* chain paths over the second half of a Record of length len
Tails(len, vals) == [(len \div 2)..(len - 1) -> vals]

\* a chain that keeps jumping between the two extreme states
Oscillating(len, vals) ==
    [t \in (len \div 2)..(len - 1) |-> IF t % 2 = 0 THEN 0 ELSE MaxValD]

\* the Records of the diagnostics specification, as lists of chain paths:
\* one seed and blocks of 16 (m = 2, n = 4); two seeds and blocks of 16, the
\* second chain oscillating (m = 4, n = 4); two seeds and blocks of 8
\* (m = 4, n = 2)
TailLists ==
    {<<16, <<tl>>>> : tl \in Tails(16, ValsD)}
    \cup {<<16, <<tl, Oscillating(16, ValsD)>>>> : tl \in Tails(16, ValsD)}
    \cup {<<8, <<tl[1], tl[2]>>>> : tl \in Tails(8, ValsD) \X Tails(8, ValsD)}

\* the Record in which chain i follows tails[i+1] after the warm-up half
RecordOfTails(len, tails) ==
    [t \in 0..len-1 |-> [d \in 0..0 |-> [i \in 0..Len(tails)-1 |->
        IF t < len \div 2 THEN 0 ELSE tails[i + 1][t]]]]

\* the accepted moves that Record took at least: the changes of state
MovesOf(len, tails) ==
    ISum([i \in 1..Len(tails) |->
            ISum([t \in (len \div 2)..(len - 1) |->
                    IF tails[i][t] # (IF t = len \div 2 THEN 0 ELSE tails[i][t - 1])
                    THEN 1 ELSE 0],
                 len \div 2, len - 1)],
         1, Len(tails))

InitD ==
    \E tl \in TailLists :
        LET len == tl[1]
            tails == tl[2]
            c == Len(tails)
        IN  StateAt("split", 1, [i \in 0..c-1 |-> [d \in 0..0 |-> 0]], 1,
                    <<11, 10>>, len, RecordOfTails(len, tails), c - 1, len,
                    [d \in 0..0 |-> tails[c][len - 1]], MovesOf(len, tails))

NChains == Cardinality(DOMAIN x_start)

----------------------------------------------------------------------------
(* The while condition (line 188) *)

\* np.any(np.array(n_effective) < n_eff_min_list)
AnyBelowMin == \E d \in DOMAIN n_effective : FLt(n_effective[d], Fin(QInt(n_eff_min)))

\* np.any(R > R_max_list), on the squares
AnyAboveRMax == \E q \in DOMAIN R : FLt(Fin(QSq(R_max)), R[q])

\* any([i == '' for i in choice[1:]])
AnyChoiceEmpty == \E q \in 2..Len(choice) : choice[q] = Empty

\* A or B and C parses as A or (B and C)
WhileCondition == AnyBelowMin \/ (AnyAboveRMax /\ AnyChoiceEmpty)

----------------------------------------------------------------------------
(* Extending: lines 191-207 *)

\* lines 195-196: x_recorded_template[:mcmc_step_0,:,:] = x_recorded[:,:,:]
RecordTemplate(rec, step, step0, dim, c) ==
    [t \in 0..step-1 |-> IF t < step0 THEN rec[t] ELSE Zeros(1, dim, c)[0]]

\* a block loop that starts over: range(0, mcmc_step)
FirstStepRestart(step0) == 0

\* line 201: the first index of range(mcmc_step_0, mcmc_step)
FirstStep(step0) == step0

\* line 199: x_current = x_start[i], at the start of every block of chain i
BlockStartState(xs, i) == xs[i]

\* line 206: x_recorded[k,:,i] = x_current
RecordWrite(rec, k, i, xc) ==
    [rec EXCEPT ![k] = [d \in DOMAIN @ |-> [@[d] EXCEPT ![i] = xc[d]]]]

\* line 202: stepper(x) = x + dx, dx drawn from a continuous law: a state
\* other than x
Proposals(x, vals) == States(Cardinality(DOMAIN x), vals) \ {x}

\* line 188 true, then lines 191-199: enter the loop body
EnterLoop ==
    /\ pc = "while"
    /\ WhileCondition
    /\ z < MaxIter
    /\ mcmc_step_0' = (IF z = 0 THEN 0 ELSE mcmc_step_0)
    /\ x_recorded' = (IF z = 0 THEN Zeros(mcmc_step, dimension, NChains)
                      ELSE RecordTemplate(x_recorded, mcmc_step, mcmc_step_0,
                                          dimension, NChains))
    /\ i_chain' = 0
    /\ x_current' = BlockStartState(x_start, 0)
    /\ k_step' = FirstStep(mcmc_step_0')
    /\ pc' = "sample"
    /\ UNCHANGED <<dimension, x_start, n_eff_min, R_max, mcmc_step_remember,
                   mcmc_step, z, acceptances, x_result, n, m, d_dim, B, W,
                   var_dagger, R, rho_array_set, choice, n_effective,
                   samples_skip, samples>>

\* lines 202-206: one Metropolis step of chain i_chain; x_new is what stepper
\* returns and accept the outcome of the uniform draw against f(x_new)/f(x_current)
MetropolisStep ==
    /\ pc = "sample"
    /\ \E x_new \in Proposals(x_current, Vals), accept \in BOOLEAN :
        /\ accept => acceptances < MaxAccept
        /\ LET xc == IF accept THEN x_new ELSE x_current
               lastStep == k_step + 1 >= mcmc_step
               lastChain == i_chain + 1 >= NChains
           IN  /\ x_recorded' = RecordWrite(x_recorded, k_step, i_chain, xc)
               /\ acceptances' = (IF accept THEN acceptances + 1 ELSE acceptances)
               /\ IF ~lastStep
                  THEN /\ x_current' = xc
                       /\ k_step' = k_step + 1
                       /\ UNCHANGED <<i_chain, pc>>
                  ELSE IF ~lastChain
                  THEN /\ i_chain' = i_chain + 1
                       /\ x_current' = BlockStartState(x_start, i_chain + 1)
                       /\ k_step' = FirstStep(mcmc_step_0)
                       /\ UNCHANGED pc
                  ELSE /\ x_current' = xc
                       /\ k_step' = k_step + 1
                       /\ pc' = "split"
                       /\ UNCHANGED i_chain
    /\ UNCHANGED <<dimension, x_start, n_eff_min, R_max, mcmc_step_remember,
                   mcmc_step, mcmc_step_0, z, x_result, n, m, d_dim, B, W,
                   var_dagger, R, rho_array_set, choice, n_effective,
                   samples_skip, samples>>

----------------------------------------------------------------------------
(* Warm-up and chain splitting: lines 211-248 *)

\* numpy assigns rhsRows rows to lhsRows rows if they agree or rhsRows = 1
RowsFit(lhsRows, rhsRows) == rhsRows = lhsRows \/ rhsRows = 1

\* lines 211-218: can x_warmup and x_result be filled (else ValueError)
SplitShapesFit(step) ==
    /\ RowsFit(step \div 2, step - step \div 2)
    /\ RowsFit(step \div 4, step \div 2 - step \div 4)

\* a split of the whole Record in two, nothing discarded as warm-up
XResultNoWarmup(rec, step, dim, c) ==
    [t \in 0..(step \div 4)-1 |-> [d \in 0..dim-1 |-> [j \in 0..2*c-1 |->
        IF j < c THEN rec[t][d][j]
        ELSE rec[step \div 4 + t][d][j - c]]]]

\* lines 211-218: x_result[t][d][j], the second half of the Record split in two
XResultOf(rec, step, dim, c) ==
    [t \in 0..(step \div 4)-1 |-> [d \in 0..dim-1 |-> [j \in 0..2*c-1 |->
        IF j < c THEN rec[step \div 2 + t][d][j]
        ELSE rec[step \div 2 + step \div 4 + t][d][j - c]]]]

\* blocks are at least 4 long, so n = mcmc_step/4.0 is an integer whenever
\* the shapes fit
WarmupSplit ==
    /\ pc = "split"
    /\ IF ~SplitShapesFit(mcmc_step)
       THEN /\ pc' = "ValueError"
            /\ UNCHANGED <<x_result, n, m, d_dim, B, W, var_dagger, R,
                           rho_array_set>>
       ELSE /\ x_result' = XResultOf(x_recorded, mcmc_step, dimension, NChains)
            /\ n' = mcmc_step \div 4
            /\ m' = 2 * NChains
            /\ d_dim' = 0
            /\ B' = <<>>
            /\ W' = <<>>
            /\ var_dagger' = <<>>
            /\ R' = <<>>
            /\ rho_array_set' = <<>>
            /\ pc' = "diagnose"
    /\ UNCHANGED <<dimension, x_start, n_eff_min, R_max, mcmc_step_remember,
                   mcmc_step, mcmc_step_0, z, x_recorded, i_chain, k_step,
                   x_current, acceptances, choice, n_effective, samples_skip,
                   samples>>

----------------------------------------------------------------------------
(* Diagnosing one dimension: lines 252-315 *)

\* psi[d] (lines 227-230)
PsiOf(xr, nn, d) == [t \in 0..nn-1 |-> xr[t][d]]

\* lines 253-304 for one dimension: what is appended to B, W, var_dagger, R
\* and rho_array_set, and how the cutoff search ends.  Each statistic is
\* passed on as an argument, so it is computed once.
StatsWithRho(Bd, Wd, vd, ra, nn) ==
    [B |-> Bd, W |-> Wd, var_dagger |-> vd, R |-> ROf(vd, Wd),
     rho_array |-> ra, cs |-> CutoffSearch(ra, nn, 0)]

StatsWithVar(p, nn, mm, Bd, Wd, vd) ==
    StatsWithRho(Bd, Wd, vd, RhoArrayOf(p, nn, mm, vd), nn)

StatsWithBW(p, nn, mm, Bd, Wd) ==
    StatsWithVar(p, nn, mm, Bd, Wd, VarDaggerOf(Wd, Bd, nn))

DimensionStats(p, nn, mm) ==
    StatsWithBW(p, nn, mm, BOf(p, nn, mm), WOf(p, nn, mm))

\* lines 297-315 for dimension d, given its statistics st
CompleteDim(d, st) ==
    LET raised == st.cs.res = "ZeroDivisionError"
        \* choice[d] is assigned (line 303) or read (line 307)
        indexErr == ~raised /\ d + 1 > Len(choice)
        choice1 == IF st.cs.res = "found" /\ ~indexErr
                   THEN [choice EXCEPT ![d + 1] = st.cs.i]
                   ELSE choice
        hasCut == ~raised /\ ~indexErr /\ choice1[d + 1] # Empty
        brk == ~raised /\ ~indexErr /\ ~hasCut
        done == brk \/ (hasCut /\ d + 1 = dimension)
    IN  /\ B' = Append(B, st.B)
        /\ W' = Append(W, st.W)
        /\ var_dagger' = Append(var_dagger, st.var_dagger)
        /\ R' = Append(R, st.R)
        /\ rho_array_set' = Append(rho_array_set, st.rho_array)
        /\ choice' = choice1
        /\ n_effective' =
             (IF hasCut
              THEN [n_effective EXCEPT
                      ![d] = NEffectiveOf(st.rho_array, n, m, choice1[d + 1])]
              ELSE n_effective)
        /\ d_dim' = (IF hasCut /\ ~done THEN d + 1 ELSE d)
        /\ pc' = (IF raised THEN "ZeroDivisionError"
                  ELSE IF indexErr THEN "IndexError"
                  ELSE IF done THEN "while" ELSE "diagnose")
        \* lines 313-315
        /\ mcmc_step_0' = (IF done THEN mcmc_step ELSE mcmc_step_0)
        /\ mcmc_step' = (IF done THEN mcmc_step + mcmc_step_remember
                         ELSE mcmc_step)
        /\ z' = (IF done THEN z + 1 ELSE z)

DiagnoseDim ==
    /\ pc = "diagnose"
    /\ IF n = 1
       THEN \* line 266: 1.0/(n-1) raises, after line 259 appended to B
            /\ B' = Append(B, BOf(PsiOf(x_result, n, d_dim), n, m))
            /\ pc' = "ZeroDivisionError"
            /\ UNCHANGED <<W, var_dagger, R, rho_array_set, choice,
                           n_effective, d_dim, mcmc_step, mcmc_step_0, z>>
       ELSE CompleteDim(d_dim, DimensionStats(PsiOf(x_result, n, d_dim), n, m))
    /\ UNCHANGED <<dimension, x_start, n_eff_min, R_max, mcmc_step_remember,
                   x_recorded, i_chain, k_step, x_current, acceptances,
                   x_result, n, m, samples_skip, samples>>

----------------------------------------------------------------------------
(* Leaving the loop and thinning: lines 188, 319-339 *)

\* line 188 false
ExitLoop ==
    /\ pc = "while"
    /\ ~WhileCondition
    /\ pc' = "extract"
    /\ UNCHANGED <<dimension, x_start, n_eff_min, R_max, mcmc_step_remember,
                   mcmc_step, mcmc_step_0, z, x_recorded, i_chain, k_step,
                   x_current, acceptances, x_result, n, m, d_dim, B, W,
                   var_dagger, R, rho_array_set, choice, n_effective,
                   samples_skip, samples>>

\* x_result is assigned only inside the loop (line 216), together with m
XResultBound == m # 0

\* lines 319-339.  Past the loop n_effective_final >= n_eff_min > 0, so it is
\* positive or infinite.
\* lines 322-337, given n_effective_final and samples_skip
Thin(skip) ==
    /\ samples_skip' = skip
    /\ IF skip = 0
       THEN \* line 326: int(n / 0.0) = int(inf)
            /\ pc' = "OverflowError"
            /\ UNCHANGED samples
       ELSE IF SamplesFinalRows(n, skip) # StridedRows(n, skip, 0)
       THEN \* line 331: shapes differ
            /\ pc' = "ValueError"
            /\ UNCHANGED samples
       ELSE /\ samples' = SamplesOf(x_result, dimension, m, skip,
                                    SamplesFinalRows(n, skip))
            /\ pc' = "returned"

Extract ==
    /\ pc = "extract"
    /\ IF ~XResultBound
       THEN \* line 322 reads x_result
            /\ pc' = "UnboundLocalError"
            /\ UNCHANGED <<samples_skip, samples>>
       ELSE Thin(SamplesSkipOf(n, m, AMin(n_effective, DOMAIN n_effective)))
    /\ UNCHANGED <<dimension, x_start, n_eff_min, R_max, mcmc_step_remember,
                   mcmc_step, mcmc_step_0, z, x_recorded, i_chain, k_step,
                   x_current, acceptances, x_result, n, m, d_dim, B, W,
                   var_dagger, R, rho_array_set, choice, n_effective>>

Next ==
    \/ EnterLoop
    \/ MetropolisStep
    \/ WarmupSplit
    \/ DiagnoseDim
    \/ ExitLoop
    \/ Extract

Spec == Init /\ [][Next]_vars

\* the diagnostics specification: split, diagnose, test the loop, thin
NextD ==
    \/ WarmupSplit
    \/ DiagnoseDim
    \/ ExitLoop
    \/ Extract

SpecD == InitD /\ [][NextD]_vars


----------------------------------------------------------------------------
(* What the claims speak of *)

\* section 6 of the design: >= 2 seeds, ess_min > 0, r_max > 1, block_size a
\* positive multiple of 4
ValidConfiguration ==
    /\ NChains >= 2
    /\ n_eff_min > 0
    /\ QLt(QInt(1), R_max)
    /\ mcmc_step_remember > 0
    /\ mcmc_step_remember % 4 = 0

\* the run ended with an exception
Errors == {"ZeroDivisionError", "IndexError", "ValueError", "OverflowError",
           "UnboundLocalError"}

\* dimension d was diagnosed in the current outer iteration
Diagnosed(d) == d + 1 <= Len(rho_array_set) /\ d + 1 <= Len(R)

\* some lag t in [0, n-1) has rho(t) + rho(t+1) < 0
HasCutoffLag(ra, nn) ==
    \E t \in 0..nn-2 : FLt(FAdd(ra[t], ra[t + 1]), Fin(QInt(0)))

\* R_d <= R_max, on the squares
RWithinMax(d) == R[d + 1].k = "fin" /\ QLe(R[d + 1].v, QSq(R_max))

\* ESS_d >= ess_min
ESSReachesMin(d) ==
    n_effective[d].k # "nan" /\ ~FLt(n_effective[d], Fin(QInt(n_eff_min)))

\* every dimension has a cutoff lag, R_d <= R_max and ESS_d >= ess_min
AllDimsConverged ==
    \A d \in 0..dimension-1 :
        /\ Diagnosed(d)
        /\ HasCutoffLag(rho_array_set[d + 1], n)
        /\ RWithinMax(d)
        /\ ESSReachesMin(d)

\* at least one Metropolis step has been taken
StepTaken == k_step > 0 \/ i_chain > 0

----------------------------------------------------------------------------
(* C1: after a Diagnosing step the loop is left iff every dimension has a  *)
(* cutoff lag, R_d <= R_max and ESS_d >= ess_min; otherwise the Driver     *)
(* goes back to Extending.  The code leaves the loop on ESS alone:         *)
(* choice[1:] is empty, so "R > R_max and ..." is always False.            *)
C1_ExitIffAllConverged ==
    (ValidConfiguration /\ z >= 1) =>
        /\ pc = "extract" => AllDimsConverged
        /\ pc = "sample" => ~AllDimsConverged

(* C2: once max_outer_iterations rounds have passed without convergence    *)
(* the Driver fails with NonConvergence instead of extending again, for    *)
(* every cap max_outer_iterations.  The code has no cap: it extends again.  *)
C2_IterationCap ==
    \A max_outer_iterations \in 1..(MaxIter - 1) :
        (ValidConfiguration /\ z >= max_outer_iterations) =>
            pc \notin {"sample", "split", "diagnose"}

(* C3: the Record is append-only across outer iterations: no step changes  *)
(* a state below the Record length of the previous iteration, and the      *)
(* Record of outer iteration j is j * block_size long.                     *)
C3_RecordLength ==
    /\ pc \in {"sample", "split", "diagnose"} =>
         DOMAIN x_recorded = 0..((z + 1) * mcmc_step_remember - 1)
    /\ (pc \in {"while", "extract", "returned"} /\ z >= 1) =>
         DOMAIN x_recorded = 0..(z * mcmc_step_remember - 1)

C3_RecordAppendOnly ==
    [][/\ \A t \in DOMAIN x_recorded :
             t < mcmc_step_0' =>
                 t \in DOMAIN x_recorded' /\ x_recorded'[t] = x_recorded[t]
       /\ C3_RecordLength']_vars

\* the second block has been sampled on top of a first block with moves in it
C3_Witness ==
    /\ z = 1
    /\ pc = "split"
    /\ mcmc_step_0 = mcmc_step_remember
    /\ \E t \in 0..mcmc_step_0-1 : x_recorded[t][0][NChains - 1] # 0
    /\ \E t \in mcmc_step_0..mcmc_step-1 : x_recorded[t][0][NChains - 1] # 0

(* C4: if no lag t in [0, n-1) has rho_d(t) + rho_d(t+1) < 0, Diagnosing   *)
(* completes without an error and the Driver returns to Extending.  The    *)
(* code evaluates rho(n) at i = n-1, whose variogram divides by m*(n-n).   *)
(* Stated for the last diagnosed dimension, with W_d > 0.                  *)
C4_NoCutoffReturnsToExtending ==
    (ValidConfiguration /\ Len(rho_array_set) >= 1
       /\ Len(W) = Len(rho_array_set) /\ QLt(QInt(0), W[Len(W)])
       /\ ~HasCutoffLag(rho_array_set[Len(rho_array_set)], n)) =>
        pc \in {"while", "sample", "split"}

(* C5: ESS_d <= m*n in every Diagnosing step, the denominator              *)
(* 1 + 2*sum_{t=1}^{T_d-1} rho_d(t) being never below 1.                    *)
C5_ESSAtMostMN ==
    ValidConfiguration =>
        \A d \in 0..dimension-1 :
            (Diagnosed(d) /\ HasCutoffLag(rho_array_set[d + 1], n)
               /\ pc \notin Errors) =>
                /\ ~FLt(Fin(QInt(m * n)), n_effective[d])
                /\ QLe(QInt(1),
                       ESSDenominator(rho_array_set[d + 1], n, choice[d + 1]))

(* C6: R_d >= 1 whenever W_d > 0: the pooled variance is never smaller     *)
(* than the within-chain variance.                                         *)
C6_RAtLeastOne ==
    \A q \in 1..Len(W) :
        QLt(QInt(0), W[q]) => QLe(W[q], var_dagger[q])

(* C6 as amended: whenever W_d > 0, R_d >= sqrt((n-1)/n), that is          *)
(* var_dagger_d >= ((n-1)/n) * W_d, and R_d >= 1 exactly when B_d >= W_d.   *)
C6_RLowerBound ==
    \A q \in 1..Len(W) :
        QLt(QInt(0), W[q]) =>
            /\ R[q] = Fin(QDiv(var_dagger[q], W[q]))
            /\ QLe(Q(n - 1, n), R[q].v)
            /\ QLe(QInt(1), R[q].v) <=> QLe(W[q], B[q])

\* a dimension with W_d > 0 whose R_d is below 1
C6_Witness ==
    \E q \in 1..Len(W) :
        /\ QLt(QInt(0), W[q])
        /\ Len(R) >= q
        /\ R[q].k = "fin"
        /\ QLt(R[q].v, QInt(1))
        /\ QLt(QInt(0), B[q])

(* C7: on leaving the loop, s = ceil(m*n / min_d ESS_d) is an integer >= 1 *)
(* and the returned list holds, chain after chain, the Ensemble states at  *)
(* indices 0, s, 2s, ... below n: m * ceil(n/s) of them.                    *)
C7_Thinning ==
    (ValidConfiguration /\ XResultBound
       /\ pc \in {"returned", "OverflowError", "ValueError"}
       /\ Len(rho_array_set) = dimension) =>
        /\ samples_skip >= 1
        /\ pc = "returned"
        /\ Len(samples) = m * CeilDiv(n, samples_skip)
        /\ \A j \in 0..m-1 : \A r \in 0..CeilDiv(n, samples_skip)-1 :
              /\ r * samples_skip < n
              /\ samples[j * CeilDiv(n, samples_skip) + r + 1]
                   = [d \in 0..dimension-1 |-> x_result[r * samples_skip][d][j]]

(* C8: the list returned on convergence holds at least ess_min draws.      *)
C8_AtLeastEssMinDraws ==
    (ValidConfiguration /\ pc = "returned") => Len(samples) >= n_eff_min

(* C9: W_d = 0 ends the run in DegenerateChain, without an R_d computed    *)
(* from the division by W_d.                                               *)
C9_DegenerateChain ==
    ValidConfiguration =>
        \A q \in 1..Len(W) :
            W[q] = QInt(0) => (pc = "DegenerateChain" /\ R[q].k = "fin")

(* C10: an invalid configuration is rejected with InvalidConfiguration     *)
(* before any sampling: no Metropolis step is taken.                       *)
C10_InvalidConfigurationRejected ==
    ~ValidConfiguration => ~StepTaken

(* C11: each chain is one continuous trajectory across outer iterations:   *)
(* for every Record index t >= 1, the first index of a later block         *)
(* included, the Metropolis advance that writes state t starts from state   *)
(* t-1 of the same chain.  The code restarts every block from the seed     *)
(* (x_current = x_start[i], line 199).                                      *)
C11_ChainContinuity ==
    (ValidConfiguration /\ pc = "sample" /\ k_step >= 1) =>
        x_current = [d \in 0..dimension-1 |-> x_recorded[k_step - 1][d][i_chain]]

\* dimension d's R, cutoff lag and ESS in the state are those of the
\* statistics st
FeedsDecision(d, st, nn, mm) ==
    /\ st.cs.res = "found"
    /\ choice[d + 1] = st.cs.i
    /\ R[d + 1] = st.R
    /\ B[d + 1] = st.B
    /\ W[d + 1] = st.W
    /\ rho_array_set[d + 1] = st.rho_array
    /\ n_effective[d] = NEffectiveOf(st.rho_array, nn, mm, st.cs.i)

C13_NoIndexError ==
    ValidConfiguration => pc # "IndexError"

(* C14: WarmupSplitter: for a Record of length L (a multiple of 4) with c  *)
(* chains the Ensemble has n = L/4 and m = 2c; Ensemble chain j at index i  *)
(* is Record chain j at index L/2 + i, Ensemble chain c + j at index i is   *)
(* Record chain j at index L/2 + n + i; every Ensemble state is taken from  *)
(* a Record index >= L/2.                                                   *)
C14_WarmupSplit ==
    (pc = "diagnose" /\ mcmc_step % 4 = 0) =>
        /\ 4 * n = mcmc_step
        /\ m = 2 * NChains
        /\ DOMAIN x_result = 0..n-1
        /\ \A i \in 0..n-1 : \A d \in 0..dimension-1 :
              /\ DOMAIN x_result[i][d] = 0..m-1
              /\ \A j \in 0..NChains-1 :
                    /\ x_result[i][d][j]
                         = x_recorded[mcmc_step \div 2 + i][d][j]
                    /\ x_result[i][d][NChains + j]
                         = x_recorded[mcmc_step \div 2 + n + i][d][j]

\* the Record of the second outer iteration has been split, with a chain
\* that sits at 1 in the discarded half and at 0 in the whole Ensemble
C14_Witness ==
    /\ pc = "diagnose"
    /\ z = 1
    /\ mcmc_step = 2 * mcmc_step_remember
    /\ \E j \in 0..NChains-1 :
          /\ \E t \in 0..(mcmc_step \div 2)-1 : x_recorded[t][0][j] = 1
          /\ \A i \in 0..n-1 :
                x_result[i][0][j] = 0 /\ x_result[i][0][NChains + j] = 0

=============================================================================
